---------------------------- MODULE Spec2Model ----------------------------
(***************************************************************************)
(* Model of the Global Health Dashboard (src/app.py).                      *)
(*                                                                         *)
(*   SpecFilter : load_data's cleaning, renaming and row filter, applied   *)
(*                to bounded input tables (and re-applied to its output).  *)
(*   SpecFormat : format_value, the per-indicator formatting done by      *)
(*                create_data_narrative and the report it returns,         *)
(*                applied to bounded inputs.                               *)
(*   Spec       : one user session of the page: user events followed by    *)
(*                the top-to-bottom rerun of the script, which load_data   *)
(*                stops or fails when the CSV files cannot be read.        *)
(*                                                                         *)
(* Text is modelled by TLA+ strings; a missing text cell (pandas NaN) is   *)
(* the reserved string NA.  Numbers are modelled in thousandths: the       *)
(* number 72.345 is Num(72345).                                            *)
(***************************************************************************)
EXTENDS Integers, Sequences, FiniteSets, TLC

VARIABLES
    stage,      \* SpecFilter: "read", "loaded", "failed" or "refiltered"
    raw,        \* the table pd.read_csv returns for the data file
    df,         \* the filtered table load_data returns
    df2,        \* SpecFilter: the filter-and-rename step applied to df
    call,       \* SpecFormat: the call under way, with its arguments
    ret,        \* SpecFormat: what the call returned
    pc,         \* Spec: where the script run is; "idle" between two runs,
                \* "halted" after st.stop(), "failed" after lines 674-680
    session,    \* Spec: st.session_state and the widgets' values
    map_data,   \* Spec: what the map component reports (st_folium)
    run,        \* Spec: the locals and the output of the script run
    files,      \* Spec: what reading the CSV files does (lines 145-150)
    event       \* Spec: the user's event that started the run under way

vars == <<stage, raw, df, df2, call, ret, pc, session, map_data, run, files,
          event>>

filterVars == <<stage, raw, df, df2>>
formatVars == <<call, ret>>
appVars == <<pc, session, map_data, run, files, event>>

-----------------------------------------------------------------------------
(* Bounds of the model *)

\* longest input table of SpecFilter
MaxRows == 2

-----------------------------------------------------------------------------
(* Values *)

\* a missing text cell (NaN in an object column)
NA == "<NaN>"

\* a number, in thousandths
Num(m) == [kind |-> "num", m |-> m]
\* float NaN, the missing marker of a numeric column
NaNVal == [kind |-> "nan"]
\* Python None
NoneVal == [kind |-> "none"]

\* Python None where a text is expected
None == "<None>"

-----------------------------------------------------------------------------
(* Text operations *)

LowerLetters == "abcdefghijklmnopqrstuvwxyz"
UpperLetters == "ABCDEFGHIJKLMNOPQRSTUVWXYZ"

\* one character of str.upper(); the labels of the model are ASCII
UpperChar(c) ==
    IF \E i \in 1..26 : SubSeq(LowerLetters, i, i) = c
    THEN LET i == CHOOSE k \in 1..26 : SubSeq(LowerLetters, k, k) = c
         IN  SubSeq(UpperLetters, i, i)
    ELSE c

RECURSIVE Upper(_)
\* str.upper()
Upper(s) ==
    IF Len(s) = 0 THEN ""
    ELSE UpperChar(SubSeq(s, 1, 1)) \o Upper(SubSeq(s, 2, Len(s)))

RECURSIVE Strip(_)
\* str.strip(); blanks are the only whitespace of the model's cells
Strip(s) ==
    IF Len(s) = 0 THEN ""
    ELSE IF SubSeq(s, 1, 1) = " " THEN Strip(SubSeq(s, 2, Len(s)))
    ELSE IF SubSeq(s, Len(s), Len(s)) = " " THEN Strip(SubSeq(s, 1, Len(s) - 1))
    ELSE s

\* t occurs in s (the terms searched for hold no regex metacharacter)
Contains(s, t) ==
    \E i \in 1..(Len(s) - Len(t) + 1) : SubSeq(s, i, i + Len(t) - 1) = t

\* Series.str.strip() on an object column: NaN stays NaN
StrStrip(s) == IF s = NA THEN NA ELSE Strip(s)

\* Series.str.contains(term, case=False, na=False)
StrContainsNoCase(s, term) ==
    IF s = NA THEN FALSE ELSE Contains(Upper(s), Upper(term))

\* Series.str.contains(term, case=True, na=False): the case-sensitive search
StrContainsCase(s, term) ==
    IF s = NA THEN FALSE ELSE Contains(s, term)

-----------------------------------------------------------------------------
(* The tables of load_data *)

EXCLUDE_TERMS ==
    { "AFRICA", "ASIA", "LATIN AMERICA", "CARIBBEAN", "MIDDLE EAST",
      "HIGH INCOME", "LOW INCOME", "IDA", "IBRD", "UNION", "WORLD", "TOTAL",
      "DEVELOPING", "EASTERN", "WESTERN", "CENTRAL", "PACIFIC", "ARAB", "OECD",
      "LESS DEVELOPED", "MORE DEVELOPED", "EURO AREA", "UN", "FORMER",
      "REPUBLIC OF YEMEN", "REGIONS", "DEMOGRAPHIC DIVIDEND", "SMALL STATES",
      "LAND-LOCKED", "NORTH AMERICA", "ANDORRA" }

SPECIFIC_EXCLUSIONS ==
    { "CZECHOSLOVAKIA", "WEST BENGAL", "HOLY SEE",
      "BRITISH VIRGIN ISLANDS", "CAYMAN ISLANDS", "FALKLAND ISLANDS", "GIBRALTAR",
      "GUERNSEY", "ISLE OF MAN", "JERSEY", "NEW CALEDONIA", "NETHERLANDS ANTILLES",
      "FRENCH GUIANA", "FRENCH POLYNESIA", "GUADELOUPE", "MAYOTTE", "MARTINIQUE",
      "CHANNEL ISLANDS", "MONTSERRAT", "CURACAO", "BONAIRE SINT EUSTATIUS AND SABA",
      "FAROE ISLANDS", "ARUBA", "AMERICAN SAMOA" }

RENAME_ISO_TO_COUNTRY ==
    ("GRL" :> "Greenland") @@
    ("EAS" :> "Asia (Russia Data Proxy)") @@
    ("ARB" :> "Arab World (Saudi Arabia Data Proxy)") @@
    ("EGY" :> "Egypt, Arab Rep. (Norway Data Proxy)") @@
    ("MNA" :> "Middle East/N. Africa (Pakistan Data Proxy)") @@
    ("ECS" :> "Europe & C. Asia (UK/WBengal/Euro Proxy)") @@
    ("AFE" :> "Africa E&S (Zambia, Sudan Proxy)") @@
    ("AFW" :> "Africa W&C (Tanzania, Togo, SL Proxy)") @@
    ("MEA" :> "Middle East/N. Africa/Pakistan (Syria, W. Sahara, Tunisia Proxy)") @@
    ("TEC" :> "Europe & C. Asia (IDA/IBRD) (Romania Proxy)") @@
    ("CEB" :> "Central European & Baltic (Poland Proxy)") @@
    ("ECA" :> "Europe & C. Asia (excl. High Income) (Portugal Proxy)") @@
    ("NAC" :> "North America (Uruguay, Paraguay Proxy)") @@
    ("GBR" :> "United Kingdom") @@
    ("PAK" :> "Pakistan") @@
    ("KOR" :> "Korea, Rep.") @@
    ("PRK" :> "Korea, Dem. People's Rep.") @@
    ("IRN" :> "Iran, Islamic Rep.") @@
    ("MAC" :> "Macao SAR, China") @@
    ("HKG" :> "Hong Kong SAR, China") @@
    ("COG" :> "Congo, Rep.") @@
    ("CPV" :> "Cabo Verde") @@
    ("KGZ" :> "Kyrgyz Republic") @@
    ("LAO" :> "Lao PDR") @@
    ("FSM" :> "Micronesia, Fed. Sts.") @@
    ("FFF" :> "Africa Central (New Proxy)")

MUST_KEEP_AGGREGATES ==
    { "Americas", "Europe & Central Asia", "East Asia & Pacific",
      "Arab World",
      "Middle East, North Africa, Afghanistan & Pakistan (excluding high income)",
      "Africa Eastern and Southern", "Africa Western and Central",
      "Middle East, North Africa, Afghanistan & Pakistan",
      "Europe & Central Asia (IDA & IBRD countries)",
      "Central Europe and the Baltics",
      "Europe & Central Asia (excluding high income)",
      "North America", "Latin America & Caribbean" }

-----------------------------------------------------------------------------
(* The indicator catalog *)

\* ALL_INDICATOR_DETAILS; an entry holds only the keys its dict literal holds.
\* The two units the source spells with non-ASCII characters are written in
\* ASCII here (they are neither "Yrs" nor "%").
ALL_INDICATOR_DETAILS ==
    ("HDI" :> [display |-> "HDI (Development)", unit |-> "", precision |-> 3]) @@
    ("LIFE_EXPECTANCY" :> [display |-> "Life Expectancy", unit |-> "Yrs", precision |-> 1]) @@
    ("GDP_PER_CAPITA" :> [display |-> "GDP per Capita", unit |-> "$", currency |-> TRUE]) @@
    ("GINI_INDEX" :> [display |-> "Gini Index", unit |-> "%", precision |-> 1]) @@
    ("MEDIAN_AGE_EST" :> [display |-> "Median Age", unit |-> "Yrs", precision |-> 1]) @@
    ("TOTAL_POPULATION" :> [display |-> "Total Population", unit |-> "M", precision |-> 1]) @@
    ("POPULATION_DENSITY" :> [display |-> "Population Density", unit |-> "ppl/km2", precision |-> 0]) @@
    ("PM25" :> [display |-> "PM2.5 (Air Pollution)", unit |-> "ug/m3", precision |-> 2]) @@
    ("HEALTH_INSURANCE" :> [display |-> "Health Insurance", unit |-> "%", precision |-> 1]) @@
    ("BIRTHS" :> [display |-> "Annual Births", unit |-> "K", precision |-> 1]) @@
    ("DEATHS" :> [display |-> "Annual Deaths", unit |-> "K", precision |-> 1]) @@
    ("COVID_DEATHS" :> [display |-> "COVID Deaths", unit |-> "/mil", precision |-> 1]) @@
    ("COVID_CASES" :> [display |-> "COVID Cases", unit |-> "/mil", precision |-> 1]) @@
    ("MALE_POPULATION" :> [display |-> "Male Population", unit |-> "M", precision |-> 1]) @@
    ("FEMALE_POPULATION" :> [display |-> "Female Population", unit |-> "M", precision |-> 1])

\* the indicator columns of the table
IndicatorKeys == DOMAIN ALL_INDICATOR_DETAILS

-----------------------------------------------------------------------------
(* load_data: cleaning (lines 160-163) *)

\* int() of a number: truncation toward zero
TruncToInt(m) == IF m >= 0 THEN m \div 1000 ELSE -((-m) \div 1000)

\* one cell of df["YEAR"].astype(int)
AsTypeInt(v) == Num(TruncToInt(v.m) * 1000)

\* astype(int) raises when a year is missing
YearsCastable(t) == \A i \in 1..Len(t) : t[i].YEAR.kind = "num"

\* lines 161-163 on one row
CleanRow(r) ==
    [r EXCEPT !.YEAR = AsTypeInt(@), !.ISO3 = StrStrip(@), !.COUNTRY = StrStrip(@)]

\* lines 160-163 on the table
CleanTable(t) == [i \in 1..Len(t) |-> CleanRow(t[i])]

-----------------------------------------------------------------------------
(* load_data: renaming and the row filter (lines 165-181) *)

\* lines 166-167: the label of a row after the rename loop
RenameLabel(r) ==
    IF r.ISO3 \in DOMAIN RENAME_ISO_TO_COUNTRY
    THEN RENAME_ISO_TO_COUNTRY[r.ISO3]
    ELSE r.COUNTRY

\* lines 165-167 on one row: ORIGINAL_COUNTRY is added, COUNTRY is rewritten
WithOriginal(r) ==
    [idx |-> r.idx, ISO3 |-> r.ISO3, COUNTRY |-> RenameLabel(r),
     ORIGINAL_COUNTRY |-> r.COUNTRY, YEAR |-> r.YEAR, VALS |-> r.VALS]

\* the rename-table test made on the label column instead of the ISO3 column
must_keep_isos_by_label(r) == r.COUNTRY \in DOMAIN RENAME_ISO_TO_COUNTRY

\* line 170
must_keep_isos(r) == r.ISO3 \in DOMAIN RENAME_ISO_TO_COUNTRY

\* line 171
must_keep_names(r) == r.ORIGINAL_COUNTRY \in MUST_KEEP_AGGREGATES

\* line 173, the list [s.upper() for s in SPECIFIC_EXCLUSIONS]
SpecificExclusionsUpper == { Upper(s) : s \in SPECIFIC_EXCLUSIONS }

\* line 173 for one label: str.upper() of NaN is NaN, which isin() rejects
IsSpecificExclusionLabel(label) ==
    /\ label # NA
    /\ Upper(label) \in SpecificExclusionsUpper

\* a case-sensitive search of the blocklist
IsAggregateLabelCaseSensitive(label) ==
    \E term \in EXCLUDE_TERMS : StrContainsCase(label, term)

\* lines 175-177 for one label
IsAggregateLabel(label) ==
    \E term \in EXCLUDE_TERMS : StrContainsNoCase(label, term)

\* the labels the tables of the model hold
KnownLabels ==
    { "", NA, "Sub-Saharan Africa (excluding high income)", "India", "United States",
      "north america", "Gibraltar", "Americas (USA Data Proxy)" }
    \cup MUST_KEEP_AGGREGATES
    \cup { RENAME_ISO_TO_COUNTRY[iso] : iso \in DOMAIN RENAME_ISO_TO_COUNTRY }

\* lines 173-177 evaluated once per known label
LabelMasks ==
    [label \in KnownLabels |->
        [aggregate |-> IsAggregateLabel(label),
         specific  |-> IsSpecificExclusionLabel(label)]]

\* line 173
is_specific_exclusion(r) ==
    IF r.ORIGINAL_COUNTRY \in KnownLabels
    THEN LabelMasks[r.ORIGINAL_COUNTRY].specific
    ELSE IsSpecificExclusionLabel(r.ORIGINAL_COUNTRY)

\* the blocklist searched with case=True
is_aggregate_case_sensitive(r) ==
    IsAggregateLabelCaseSensitive(r.ORIGINAL_COUNTRY)

\* lines 175-177
is_aggregate(r) ==
    IF r.ORIGINAL_COUNTRY \in KnownLabels
    THEN LabelMasks[r.ORIGINAL_COUNTRY].aggregate
    ELSE IsAggregateLabel(r.ORIGINAL_COUNTRY)

\* the mask with the exclusions applied to the must-keep rows as well
rows_to_keep_exclusion_wins(r) ==
    ~is_aggregate(r) /\ ~is_specific_exclusion(r)

\* the mask with rows that hold no indicator value dropped (a dropna)
rows_to_keep_dropna(r) ==
    /\ \/ must_keep_isos(r)
       \/ must_keep_names(r)
       \/ (~is_aggregate(r) /\ ~is_specific_exclusion(r))
    /\ \E k \in DOMAIN r.VALS : r.VALS[k].kind = "num"

\* line 178
rows_to_keep(r) ==
    \/ must_keep_isos(r)
    \/ must_keep_names(r)
    \/ (~is_aggregate(r) /\ ~is_specific_exclusion(r))

\* the post-hoc rename made by substring match instead of equality
AmericasRenameBySubstring(label) ==
    IF StrContainsCase(label, "Americas")
    THEN label \o " (USA Data Proxy)"
    ELSE label

\* line 180
AmericasRename(label) ==
    IF label = "Americas" THEN "Americas (USA Data Proxy)" ELSE label

\* lines 180-181 on one kept row
Finish(r) ==
    [idx |-> r.idx, ISO3 |-> r.ISO3, COUNTRY |-> AmericasRename(r.COUNTRY),
     YEAR |-> r.YEAR, VALS |-> r.VALS]

\* lines 165-181: rows keep their index label through the boolean mask
FilterAndRename(t) ==
    LET marked == [i \in 1..Len(t) |-> WithOriginal(t[i])]
        kept   == SelectSeq(marked, rows_to_keep)
    IN  [i \in 1..Len(kept) |-> Finish(kept[i])]

-----------------------------------------------------------------------------
(* format_value (lines 200-219) *)

KPI_VALUE_COLOR == "#FFFFF0"

\* line 203, the missing-data message
DataNotAvailable == "<span style='color: #FF6347;'>**Data Not Available**</span>"

\* pd.isna(value) or value is None
IsMissing(value) == value.kind \in {"nan", "none"}

\* one decimal digit
DigitStr(d) == SubSeq("0123456789", d + 1, d + 1)

RECURSIVE NatToStr(_)
\* str() of a natural number
NatToStr(n) ==
    IF n < 10 THEN DigitStr(n) ELSE NatToStr(n \div 10) \o DigitStr(n % 10)

RECURSIVE Pow10(_)
Pow10(p) == IF p = 0 THEN 1 ELSE 10 * Pow10(p - 1)

RECURSIVE ZeroPad(_, _)
\* the digits of n, padded on the left with zeros to width w
ZeroPad(n, w) ==
    IF w = 0 THEN ""
    ELSE ZeroPad(n \div 10, w - 1) \o DigitStr(n % 10)

RECURSIVE GroupNat(_)
\* format(n, ",") of a natural number
GroupNat(n) ==
    IF n < 1000 THEN NatToStr(n)
    ELSE GroupNat(n \div 1000) \o "," \o ZeroPad(n % 1000, 3)

\* f"{int(value):,}"
FormatGroupedInt(m) ==
    LET n == TruncToInt(m)
    IN  IF n < 0 THEN "-" \o GroupNat(-n) ELSE GroupNat(n)

\* Magnitudes (in thousandths) of the model that are no binary fractions, lie
\* halfway between two roundings at some precision, and whose double lies
\* above the decimal: 999.995 is stored as 999.99500000000000454...
\* (72.345 is stored as 72.34499999999999886...).
HalfwayStoredAbove == { 999995 }

\* f"{value:.{precision}f}" for precision <= 3: the double is rounded to the
\* nearest, a double exactly halfway (a multiple of 1/8 here) to even
FormatFixed(m, precision) ==
    LET a       == IF m < 0 THEN -m ELSE m
        unit    == Pow10(3 - precision)
        q       == a \div unit
        rem     == a % unit
        roundUp == \/ 2 * rem > unit
                   \/ /\ 2 * rem = unit
                      /\ IF a % 125 = 0 THEN q % 2 = 1 ELSE a \in HalfwayStoredAbove
        r       == IF roundUp THEN q + 1 ELSE q
        whole   == NatToStr(r \div Pow10(precision))
        frac    == IF precision = 0 THEN ""
                   ELSE "." \o ZeroPad(r % Pow10(precision), precision)
    IN  (IF m < 0 THEN "-" ELSE "") \o whole \o frac

\* line 219
Rendered(prefix, value_str, units) ==
    "<span style='color: " \o KPI_VALUE_COLOR \o ";'>" \o prefix \o value_str
        \o "</span> " \o units

\* format_value with the guard reduced to "value is None": NaN is formatted
\* like a number and prints as nan
format_value_none_only(value, units, precision, is_currency) ==
    IF value.kind = "none" THEN DataNotAvailable
    ELSE IF value.kind = "nan"
         THEN Rendered(IF is_currency THEN "$" ELSE "", "nan", units)
    ELSE IF is_currency
         THEN Rendered("$",
                  IF (IF value.m < 0 THEN -value.m ELSE value.m) >= 1000000
                  THEN FormatGroupedInt(value.m)
                  ELSE FormatFixed(value.m, precision), units)
    ELSE Rendered("",
             IF value.m >= 1000000 /\ ~(units = "Yrs" \/ units = "%")
             THEN FormatGroupedInt(value.m)
             ELSE FormatFixed(value.m, precision), units)

\* format_value with the currency branch testing value >= 1000, not abs(value)
format_value_no_abs(value, units, precision, is_currency) ==
    IF IsMissing(value) THEN DataNotAvailable
    ELSE IF is_currency
         THEN Rendered("$",
                  IF value.m >= 1000000
                  THEN FormatGroupedInt(value.m)
                  ELSE FormatFixed(value.m, precision), units)
    ELSE Rendered("",
             IF value.m >= 1000000 /\ ~(units = "Yrs" \/ units = "%")
             THEN FormatGroupedInt(value.m)
             ELSE FormatFixed(value.m, precision), units)

\* format_value with the unit test of line 213 left out
format_value_no_unit_test(value, units, precision, is_currency) ==
    IF IsMissing(value) THEN DataNotAvailable
    ELSE IF is_currency
         THEN Rendered("$",
                  IF (IF value.m < 0 THEN -value.m ELSE value.m) >= 1000000
                  THEN FormatGroupedInt(value.m)
                  ELSE FormatFixed(value.m, precision), units)
    ELSE Rendered("",
             IF value.m >= 1000000
             THEN FormatGroupedInt(value.m)
             ELSE FormatFixed(value.m, precision), units)

\* lines 200-219
format_value(value, units, precision, is_currency) ==
    IF IsMissing(value) THEN DataNotAvailable
    ELSE IF is_currency
         THEN Rendered("$",
                  IF (IF value.m < 0 THEN -value.m ELSE value.m) >= 1000000
                  THEN FormatGroupedInt(value.m)
                  ELSE FormatFixed(value.m, precision), units)
    ELSE Rendered("",
             IF value.m >= 1000000 /\ ~(units = "Yrs" \/ units = "%")
             THEN FormatGroupedInt(value.m)
             ELSE FormatFixed(value.m, precision), units)

-----------------------------------------------------------------------------
(* create_data_narrative: the formatted value of one entry (lines 241-254) *)

\* the places of s where t starts
Occurrences(s, t) ==
    { i \in 1..(Len(s) - Len(t) + 1) : SubSeq(s, i, i + Len(t) - 1) = t }

RECURSIVE ReplaceAll(_, _, _)
\* str.replace(old, new), old not empty: the leftmost occurrence is replaced,
\* then those of the text after it
ReplaceAll(s, old, new) ==
    LET hits == Occurrences(s, old)
    IN  IF hits = {} THEN s
        ELSE LET i == CHOOSE k \in hits : \A j \in hits : k <= j
             IN  SubSeq(s, 1, i - 1) \o new
                 \o ReplaceAll(SubSeq(s, i + Len(old), Len(s)), old, new)

\* dict.get(key, default) and Series.get(key, default)
Get(d, key, default) == IF key \in DOMAIN d THEN d[key] ELSE default

\* lines 244-247: the value of the indicator in the row
NarrativeValue(row, indicator) ==
    IF indicator = "MEDIAN_AGE_EST"
    THEN Get(row, "MEDIAN_AGE_EST", Get(row, "MEDIAN_AGE_MID", NaNVal))
    ELSE Get(row, indicator, NaNVal)

\* lines 241-254: the formatted value, its trailing unit removed
NarrativeFormatted(row, indicator) ==
    LET detail == Get(ALL_INDICATOR_DETAILS, indicator, [none |-> 0])
        unit   == Get(detail, "unit", "")
    IN  ReplaceAll(
            format_value(NarrativeValue(row, indicator), unit,
                         Get(detail, "precision", 3), Get(detail, "currency", FALSE)),
            "</span> " \o unit, "</span>")

-----------------------------------------------------------------------------
(* create_data_narrative: the report (lines 222-276) *)

\* one character of str.lower()
LowerChar(c) ==
    IF \E i \in 1..26 : SubSeq(UpperLetters, i, i) = c
    THEN LET i == CHOOSE k \in 1..26 : SubSeq(UpperLetters, k, k) = c
         IN  SubSeq(LowerLetters, i, i)
    ELSE c

IsLetter(c) == UpperChar(c) # c \/ LowerChar(c) # c

RECURSIVE TitleFrom(_, _)
\* str.title(): a letter that follows no letter is upper-cased, every other
\* letter lower-cased; after_letter tells what the previous character was
TitleFrom(s, after_letter) ==
    IF Len(s) = 0 THEN ""
    ELSE LET c == SubSeq(s, 1, 1)
         IN  (IF after_letter THEN LowerChar(c) ELSE UpperChar(c))
             \o TitleFrom(SubSeq(s, 2, Len(s)), IsLetter(c))

Title(s) == TitleFrom(s, FALSE)

\* lines 231-236 with LIFE_EXPECTANCY listed under a second heading as well
sections_life_expectancy_twice ==
    << [title |-> "Development & Economic Stability",
        indicators |-> <<"HDI", "GDP_PER_CAPITA", "GINI_INDEX", "LIFE_EXPECTANCY">>],
       [title |-> "Population Structure & Demographics",
        indicators |-> <<"TOTAL_POPULATION", "MEDIAN_AGE_EST", "POPULATION_DENSITY",
                         "MALE_POPULATION", "FEMALE_POPULATION">>],
       [title |-> "Health Outcomes & Environmental Risk",
        indicators |-> <<"LIFE_EXPECTANCY", "HEALTH_INSURANCE", "PM25">>],
       [title |-> "Vital Statistics & Pandemic Impact",
        indicators |-> <<"BIRTHS", "DEATHS", "COVID_DEATHS", "COVID_CASES">>] >>

\* lines 231-236
sections ==
    << [title |-> "Development & Economic Stability",
        indicators |-> <<"HDI", "GDP_PER_CAPITA", "GINI_INDEX">>],
       [title |-> "Population Structure & Demographics",
        indicators |-> <<"TOTAL_POPULATION", "MEDIAN_AGE_EST", "POPULATION_DENSITY",
                         "MALE_POPULATION", "FEMALE_POPULATION">>],
       [title |-> "Health Outcomes & Environmental Risk",
        indicators |-> <<"LIFE_EXPECTANCY", "HEALTH_INSURANCE", "PM25">>],
       [title |-> "Vital Statistics & Pandemic Impact",
        indicators |-> <<"BIRTHS", "DEATHS", "COVID_DEATHS", "COVID_CASES">>] >>

\* lines 256-270: the explanation of an indicator; two indicators have none
Context(indicator, unit_desc) ==
    IF indicator = "HDI"
    THEN "The **Human Development Index (HDI)** measures a country's "
         \o "average achievement in three basic dimensions of human "
         \o "development: a long and healthy life, knowledge, and a "
         \o "decent standard of living."
         \o unit_desc
    ELSE IF indicator = "GDP_PER_CAPITA"
    THEN "The **Gross Domestic Product (GDP) per Capita** is the "
         \o "national economic output divided by the total population, "
         \o "indicating average economic prosperity."
         \o unit_desc
    ELSE IF indicator = "GINI_INDEX"
    THEN "The **Gini Index** measures income inequality, where 0% "
         \o "represents perfect equality and 100% represents perfect "
         \o "inequality."
         \o unit_desc
    ELSE IF indicator = "TOTAL_POPULATION"
    THEN "The total number of people living in the country (reported "
         \o "in Millions)."
         \o unit_desc
    ELSE IF indicator = "POPULATION_DENSITY"
    THEN "The average number of people per square kilometer, showing "
         \o "how crowded the country is."
         \o unit_desc
    ELSE IF indicator = "MEDIAN_AGE_EST"
    THEN "The age that divides the population into two halves. A lower "
         \o "median age suggests a younger population."
         \o unit_desc
    ELSE IF indicator = "LIFE_EXPECTANCY"
    THEN "The average number of years a person is expected to live "
         \o "based on current death rates."
         \o unit_desc
    ELSE IF indicator = "HEALTH_INSURANCE"
    THEN "The percentage of the total population covered by some form "
         \o "of health insurance."
         \o unit_desc
    ELSE IF indicator = "PM25"
    THEN "The concentration of fine particulate matter in the air, a "
         \o "key indicator of environmental health risk."
         \o unit_desc
    ELSE IF indicator = "BIRTHS"
    THEN "The total number of births during the year (reported in "
         \o "thousands, K)."
         \o unit_desc
    ELSE IF indicator = "DEATHS"
    THEN "The total number of deaths during the year (reported in "
         \o "thousands, K)."
         \o unit_desc
    ELSE IF indicator = "COVID_DEATHS"
    THEN "The cumulative total of COVID-19 deaths per million people "
         \o "up to this year."
         \o unit_desc
    ELSE IF indicator = "COVID_CASES"
    THEN "The cumulative total of confirmed COVID-19 cases per million "
         \o "people up to this year."
         \o unit_desc
    ELSE ""

\* lines 241-273: the entry of an indicator
EntryText(row, indicator) ==
    LET detail == Get(ALL_INDICATOR_DETAILS, indicator, [none |-> 0])
        display_name == Get(detail, "display", Title(ReplaceAll(indicator, "_", " ")))
        formatted == NarrativeFormatted(row, indicator)
        unit_desc == " (Unit: " \o Get(detail, "unit", "No Unit") \o ")"
    IN  "* **" \o display_name \o ":** " \o formatted \o " "
        \o Get(detail, "unit", "") \o "\n  > *Explanation:* "
        \o Context(indicator, unit_desc) \o "\n"

RECURSIVE EntriesText(_, _)
\* lines 240-273: the entries of a section
EntriesText(row, indicators) ==
    IF Len(indicators) = 0 THEN ""
    ELSE EntryText(row, Head(indicators)) \o EntriesText(row, Tail(indicators))

RECURSIVE SectionsText(_, _)
\* lines 238-274
SectionsText(row, secs) ==
    IF Len(secs) = 0 THEN ""
    ELSE "#### " \o Head(secs).title \o "\n"
         \o EntriesText(row, Head(secs).indicators) \o "\n"
         \o SectionsText(row, Tail(secs))

\* line 224: the message for an empty row
NoNarrative == "No comprehensive data narrative available."

\* create_data_narrative(row, year), lines 222-276; the row maps its columns
\* to their cells.  The pictograph of the first line is left out.
create_data_narrative(row, year) ==
    IF DOMAIN row = {} \/ row["COUNTRY"] = None THEN NoNarrative
    ELSE LET text ==
                 "### Data Snapshot: " \o row["COUNTRY"] \o " (" \o NatToStr(year)
                 \o ")\n\n"
                 \o "This section provides a detailed breakdown of all available "
                 \o "indicators for the selected country and year, with "
                 \o "explanations for easy understanding.\n\n"
                 \o SectionsText(row, sections)
         IN  ReplaceAll(ReplaceAll(text, "K K", "K"), "M M", "M")

-----------------------------------------------------------------------------
(* SpecFilter: load_data on bounded input tables *)

\* the country cells of the input rows (the CSV holds a label in every row;
\* it may be padded with blanks or be blanks only)
RawLabels ==
    { "Sub-Saharan Africa (excluding high income)", "India", "United States",
      "north america", "Arab World ", "Gibraltar", "  " }
    \cup (MUST_KEEP_AGGREGATES \ {"Arab World"})

\* the ISO3 cells of the input rows
RawIsos == { " ARB", "XYZ", NA }

\* the year cells of the input rows: 2019, 2020, 2020.5 and a missing year
RawYears == { Num(2019000), Num(2020000), Num(2020500), NaNVal }

\* a row whose indicators are all present
SampleVals ==
    [k \in IndicatorKeys |->
        IF k = "GDP_PER_CAPITA" THEN Num(1500000)
        ELSE IF k = "LIFE_EXPECTANCY" THEN Num(72345)
        ELSE Num(500)]

\* a row whose indicators are all missing
MissingVals == [k \in IndicatorKeys |-> NaNVal]

\* the input rows, before pandas gives them their index label
RowPool ==
    { [ISO3 |-> iso, COUNTRY |-> c, YEAR |-> Num(2020000), VALS |-> SampleVals] :
        iso \in RawIsos, c \in RawLabels }
    \cup
    { [ISO3 |-> "XYZ", COUNTRY |-> c, YEAR |-> y, VALS |-> v] :
        c \in {"India", "Gibraltar"}, y \in RawYears, v \in {SampleVals, MissingVals} }
    \cup
    { [ISO3 |-> "GRL", COUNTRY |-> "Gibraltar", YEAR |-> Num(2020000), VALS |-> MissingVals] }

\* pd.read_csv numbers the rows 0, 1, ... (the RangeIndex)
MkTable(f) ==
    [i \in DOMAIN f |->
        [idx |-> i - 1, ISO3 |-> f[i].ISO3, COUNTRY |-> f[i].COUNTRY,
         YEAR |-> f[i].YEAR, VALS |-> f[i].VALS]]

InputTables == { MkTable(f) : f \in UNION { [1..n -> RowPool] : n \in 0..MaxRows } }

InitFilter ==
    /\ stage = "read"
    /\ raw \in InputTables
    /\ df = <<>>
    /\ df2 = <<>>
    /\ call = [op |-> "none"]
    /\ ret = ""
    /\ pc = "off"
    /\ session = [selected_id |-> "<None>"]
    /\ map_data = [last_active_feature |-> "<None>"]
    /\ run = [clicked_id |-> "<None>"]
    /\ files = "ok"
    /\ event = [kind |-> "none"]

\* load_data, lines 160-181, on the table read at line 145
LoadData ==
    /\ stage = "read"
    /\ IF YearsCastable(raw)
       THEN /\ df' = FilterAndRename(CleanTable(raw))
            /\ stage' = "loaded"
       ELSE /\ df' = <<>>
            /\ stage' = "failed"
    /\ UNCHANGED <<raw, df2, formatVars, appVars>>

\* the filter-and-rename step (lines 165-181) run on the table it returned
ReFilter ==
    /\ stage = "loaded"
    /\ df2' = FilterAndRename(df)
    /\ stage' = "refiltered"
    /\ UNCHANGED <<raw, df, formatVars, appVars>>

NextFilter == LoadData \/ ReFilter

SpecFilter == InitFilter /\ [][NextFilter]_vars

-----------------------------------------------------------------------------
(* Properties of the row filter (SpecFilter) *)

\* load_data returned a table
Loaded == stage \in {"loaded", "refiltered"}

\* the original label (column ORIGINAL_COUNTRY) and the ISO3 of input row i
OrigLabel(i) == StrStrip(raw[i].COUNTRY)
CleanIso(i) == StrStrip(raw[i].ISO3)

\* input row i is in the filtered table
IsKept(i) == \E k \in 1..Len(df) : df[k].idx = raw[i].idx

\* the label holds a term of the substring blocklist, whatever its case
MatchesBlocklist ==
    [label \in KnownLabels |->
        label # NA /\ \E term \in EXCLUDE_TERMS : Contains(Upper(label), term)]

\* the label is, whatever its case, an entry of the explicit exclusion list
InExclusionList ==
    [label \in KnownLabels |->
        label # NA /\ \E x \in SPECIFIC_EXCLUSIONS : Upper(label) = x]

\* C1: a row whose original label holds a blocklist term, is not in the
\* allow-list and whose ISO3 is no key of the rename table is absent from the
\* filtered table.
C1_BlocklistedRowsExcluded ==
    Loaded =>
        \A i \in 1..Len(raw) :
            ( /\ MatchesBlocklist[OrigLabel(i)]
              /\ OrigLabel(i) \notin MUST_KEEP_AGGREGATES
              /\ CleanIso(i) \notin DOMAIN RENAME_ISO_TO_COUNTRY )
            => ~IsKept(i)

\* a table with the Sub-Saharan aggregate under an ordinary ISO3 was filtered,
\* and another of its rows was kept
C1_Witness ==
    /\ stage = "loaded"
    /\ Len(df) >= 1
    /\ \E i \in 1..Len(raw) :
        /\ OrigLabel(i) = "Sub-Saharan Africa (excluding high income)"
        /\ CleanIso(i) = "XYZ"
        /\ ~IsKept(i)

\* C2: a row whose ISO3 is a key of the rename table is kept, and its label in
\* the filtered table is the rename table's value for that ISO3.
C2_RenamedRowsKeptWithTableLabel ==
    Loaded =>
        \A i \in 1..Len(raw) :
            CleanIso(i) \in DOMAIN RENAME_ISO_TO_COUNTRY =>
                /\ IsKept(i)
                /\ \A k \in 1..Len(df) :
                    df[k].idx = raw[i].idx =>
                        df[k].COUNTRY = RENAME_ISO_TO_COUNTRY[CleanIso(i)]

\* a row with a blocklisted label and the rename key ARB was kept under the
\* table's label
C2_Witness ==
    /\ stage = "loaded"
    /\ \E i \in 1..Len(raw) :
        /\ raw[i].ISO3 = " ARB"
        /\ MatchesBlocklist[OrigLabel(i)]
        /\ OrigLabel(i) \notin MUST_KEEP_AGGREGATES
        /\ \E k \in 1..Len(df) :
            /\ df[k].idx = raw[i].idx
            /\ df[k].COUNTRY = "Arab World (Saudi Arabia Data Proxy)"

\* C3: the filter-and-rename step applied to its own output yields the same
\* table.
C3_FilterIdempotent == stage = "refiltered" => df2 = df

\* the second pass ran on a table that holds the post-hoc renamed Americas row
\* and a row renamed through its ISO3, and returned that table
C3_Witness ==
    /\ stage = "refiltered"
    /\ Len(df) = 2
    /\ df2 = df
    /\ \E k \in 1..Len(df) : df[k].COUNTRY = "Americas (USA Data Proxy)"
    /\ \E k \in 1..Len(df) : df[k].COUNTRY = "Arab World (Saudi Arabia Data Proxy)"

\* C8: a row whose original label is an entry of the allow-list is kept, also
\* when the label holds a blocklist term.
C8_AllowListWins ==
    Loaded =>
        \A i \in 1..Len(raw) :
            OrigLabel(i) \in MUST_KEEP_AGGREGATES => IsKept(i)

\* two allow-listed rows whose labels hold blocklist terms were kept under
\* an ISO3 that is no rename key
C8_Witness ==
    /\ stage = "loaded"
    /\ \E i, j \in 1..Len(raw) :
        /\ OrigLabel(i) = "North America"
        /\ OrigLabel(j) = "Arab World"
        /\ MatchesBlocklist[OrigLabel(i)] /\ MatchesBlocklist[OrigLabel(j)]
        /\ CleanIso(i) = "XYZ" /\ CleanIso(j) = "XYZ"
        /\ IsKept(i) /\ IsKept(j)

\* C9: a row whose original label matches no blocklist term and is not in the
\* exclusion list is kept whatever its indicator values are, and two rows with
\* the same ISO3 and original label get the same decision.
C9_FilterIsLabelDriven ==
    Loaded =>
        /\ \A i \in 1..Len(raw) :
            ( ~MatchesBlocklist[OrigLabel(i)] /\ ~InExclusionList[OrigLabel(i)] )
            => IsKept(i)
        /\ \A i, j \in 1..Len(raw) :
            ( CleanIso(i) = CleanIso(j) /\ OrigLabel(i) = OrigLabel(j) )
            => (IsKept(i) <=> IsKept(j))

\* two India rows, one with every indicator missing and one with values,
\* were both kept
C9_Witness ==
    /\ stage = "loaded"
    /\ \E i, j \in 1..Len(raw) :
        /\ OrigLabel(i) = "India" /\ OrigLabel(j) = "India"
        /\ CleanIso(i) = "XYZ" /\ CleanIso(j) = "XYZ"
        /\ raw[i].VALS = MissingVals
        /\ raw[j].VALS = SampleVals
        /\ IsKept(i) /\ IsKept(j)

\* a number without a fractional part
IsInteger(v) == v.kind = "num" /\ v.m % 1000 = 0

\* C10: every row of the filtered table has a non-empty country label and an
\* integer year.
C10_KeptRowsLabelledWithIntegerYear ==
    Loaded =>
        \A k \in 1..Len(df) :
            /\ df[k].COUNTRY \notin {"", NA}
            /\ IsInteger(df[k].YEAR)

-----------------------------------------------------------------------------
(* SpecFormat: format_value and the narrative's entries on bounded inputs *)

\* no value returned yet
Pending == "<pending>"

\* the values formatted: missing ones, 0, 0.5, -0.04, 72.345, 999.5, 999.995,
\* 1000, 1500, 1500.9, -1500 and 1234567.891
FormatValues ==
    { NoneVal, NaNVal } \cup
    { Num(m) : m \in { 0, 500, -40, 72345, 999500, 999995, 1000000, 1500000,
                       1500900, -1500000, 1234567891 } }

FormatUnits == { "", "Yrs", "%", "$", "M" }

\* the precisions of the catalog and the default
FormatPrecisions == 0..3

\* a row with a few columns only; its median age is held by MEDIAN_AGE_MID
PartialVals ==
    ("HDI" :> Num(500)) @@ ("MEDIAN_AGE_MID" :> Num(72345)) @@
    ("GDP_PER_CAPITA" :> NaNVal) @@ ("TOTAL_POPULATION" :> Num(1500900))

FormatCalls ==
    { [op |-> "format_value", value |-> v, units |-> u, precision |-> p,
       is_currency |-> c] :
        v \in FormatValues, u \in FormatUnits, p \in FormatPrecisions, c \in BOOLEAN }

NarrativeCalls ==
    { [op |-> "narrative_entry", row |-> r, indicator |-> k] :
        r \in {SampleVals, MissingVals, PartialVals}, k \in IndicatorKeys }

\* the rows reported on: rows of two countries, a row with no country (None)
\* and the empty row
ReportRows ==
    { ("COUNTRY" :> c) @@ v :
        c \in {"India", "Asia (Russia Data Proxy)"},
        v \in {SampleVals, MissingVals, PartialVals} }
    \cup { ("COUNTRY" :> None) @@ SampleVals, <<>> }

\* first holds the text of the first call once the call is made again
ReportCalls ==
    { [op |-> "create_data_narrative", row |-> r, year |-> y, first |-> Pending] :
        r \in ReportRows, y \in {2019, 2020} }

InitFormat ==
    /\ call \in FormatCalls \cup NarrativeCalls \cup ReportCalls
    /\ ret = Pending
    /\ stage = "read"
    /\ raw = <<>>
    /\ df = <<>>
    /\ df2 = <<>>
    /\ pc = "off"
    /\ session = [selected_id |-> "<None>"]
    /\ map_data = [last_active_feature |-> "<None>"]
    /\ run = [clicked_id |-> "<None>"]
    /\ files = "ok"
    /\ event = [kind |-> "none"]

\* a call of format_value
FormatValue ==
    /\ call.op = "format_value"
    /\ ret = Pending
    /\ ret' = format_value(call.value, call.units, call.precision, call.is_currency)
    /\ UNCHANGED <<call, filterVars, appVars>>

\* one entry of create_data_narrative
NarrativeEntry ==
    /\ call.op = "narrative_entry"
    /\ ret = Pending
    /\ ret' = NarrativeFormatted(call.row, call.indicator)
    /\ UNCHANGED <<call, filterVars, appVars>>

\* a call of create_data_narrative
Narrative ==
    /\ call.op = "create_data_narrative"
    /\ ret = Pending
    /\ ret' = create_data_narrative(call.row, call.year)
    /\ UNCHANGED <<call, filterVars, appVars>>

\* the same call made once more
NarrativeAgain ==
    /\ call.op = "create_data_narrative"
    /\ ret # Pending
    /\ call.first = Pending
    /\ call' = [call EXCEPT !.first = ret]
    /\ ret' = create_data_narrative(call.row, call.year)
    /\ UNCHANGED <<filterVars, appVars>>

NextFormat == FormatValue \/ NarrativeEntry \/ Narrative \/ NarrativeAgain

SpecFormat == InitFormat /\ [][NextFormat]_vars

-----------------------------------------------------------------------------
(* Properties of format_value (SpecFormat) *)

Returned(op) == call.op = op /\ ret # Pending

\* the indicator is a missing field of the row: its column is absent or holds
\* NaN (an absent MEDIAN_AGE_EST column is stood in for by MEDIAN_AGE_MID)
FieldMissing(row, indicator) ==
    IF indicator \in DOMAIN row THEN row[indicator].kind # "num"
    ELSE ( indicator = "MEDIAN_AGE_EST" /\ "MEDIAN_AGE_MID" \in DOMAIN row )
         => row["MEDIAN_AGE_MID"].kind # "num"

\* C5: format_value returns the "Data Not Available" string for a missing
\* value (None or NaN) whatever the unit, precision and currency flag are, and
\* the narrative's entry of a missing indicator field is that string.
C5_MissingGivesSentinel ==
    /\ ( Returned("format_value") /\ call.value.kind \in {"none", "nan"} )
       => ret = "<span style='color: #FF6347;'>**Data Not Available**</span>"
    /\ ( Returned("narrative_entry") /\ FieldMissing(call.row, call.indicator) )
       => ret = "<span style='color: #FF6347;'>**Data Not Available**</span>"

\* NaN formatted as a currency returned the message
C5_Witness ==
    /\ Returned("format_value")
    /\ call.value = NaNVal /\ call.is_currency /\ call.units = "$"
    /\ ret = DataNotAvailable

\* the number shown for a grouped integer and for a fixed-point rendering,
\* followed by the unit
Shown(prefix, number, units) ==
    "<span style='color: #FFFFF0;'>" \o prefix \o number \o "</span> " \o units

\* C6 as stated: with the currency flag, a value >= 1000 is shown as a grouped
\* integer and every other value, every value below 1000 included, fixed-point
\* with the given precision, after the currency symbol.
C6_CurrencyGroupedFrom1000 ==
    ( Returned("format_value") /\ call.is_currency /\ call.value.kind = "num" )
    => ret = Shown("$",
                   IF call.value.m >= 1000000
                   THEN FormatGroupedInt(call.value.m)
                   ELSE FormatFixed(call.value.m, call.precision),
                   call.units)

\* C6 as amended: with the currency flag, a value whose absolute value is
\* >= 1000 is shown as a grouped integer (1500 gives "$1,500", -1500 gives
\* "$-1,500") and every other value fixed-point with the given precision,
\* after the currency symbol.
C6_CurrencyGroupedByMagnitude ==
    /\ ( Returned("format_value") /\ call.is_currency /\ call.value.kind = "num" )
       => ret = Shown("$",
                      IF call.value.m >= 1000000 \/ call.value.m <= -1000000
                      THEN FormatGroupedInt(call.value.m)
                      ELSE FormatFixed(call.value.m, call.precision),
                      call.units)
    /\ ( Returned("format_value") /\ call.is_currency /\ call.units = "$"
         /\ call.precision = 1 )
       => /\ call.value = Num(1500000)
             => ret = "<span style='color: #FFFFF0;'>$1,500</span> $"
          /\ call.value = Num(-1500000)
             => ret = "<span style='color: #FFFFF0;'>$-1,500</span> $"
          /\ call.value = Num(999500)
             => ret = "<span style='color: #FFFFF0;'>$999.5</span> $"

\* -1500 was formatted as a currency
C6_Witness ==
    /\ Returned("format_value")
    /\ call.is_currency /\ call.value = Num(-1500000) /\ call.precision = 1
    /\ ret = Shown("$", "-1,500", call.units)

\* C7: without the currency flag, the units "%" and "Yrs" are always shown
\* fixed-point with the given precision; with any other unit a value >= 1000
\* is shown as a grouped integer and a value below 1000 fixed-point.
C7_NonCurrencyUnitRule ==
    /\ ( Returned("format_value") /\ ~call.is_currency /\ call.value.kind = "num" )
       => ret = Shown("",
                      IF call.units \in {"%", "Yrs"}
                      THEN FormatFixed(call.value.m, call.precision)
                      ELSE IF call.value.m >= 1000000
                           THEN FormatGroupedInt(call.value.m)
                           ELSE FormatFixed(call.value.m, call.precision),
                      call.units)
    /\ ( Returned("format_value") /\ ~call.is_currency /\ call.precision = 1 )
       => /\ ( call.value = Num(72345) /\ call.units = "Yrs" )
             => ret = "<span style='color: #FFFFF0;'>72.3</span> Yrs"
          /\ ( call.value = Num(1500000) /\ call.units = "%" )
             => ret = "<span style='color: #FFFFF0;'>1500.0</span> %"
          /\ ( call.value = Num(1234567891) /\ call.units = "M" )
             => ret = "<span style='color: #FFFFF0;'>1,234,567</span> M"
          /\ ( call.value = Num(-1500000) /\ call.units = "M" )
             => ret = "<span style='color: #FFFFF0;'>-1500.0</span> M"

\* 1500 with the unit "Yrs" was formatted without the currency flag
C7_Witness ==
    /\ Returned("format_value")
    /\ ~call.is_currency /\ call.value = Num(1500000) /\ call.units = "Yrs"
    /\ call.precision = 1
    /\ ret = "<span style='color: #FFFFF0;'>1500.0</span> Yrs"

-----------------------------------------------------------------------------
(* Properties of create_data_narrative (SpecFormat) *)

\* the four headings, in the order of the report
C13_Headings ==
    << "Development & Economic Stability", "Population Structure & Demographics",
       "Health Outcomes & Environmental Risk", "Vital Statistics & Pandemic Impact" >>

\* the place of the n-th heading's line in the text returned
HeadingAt(n) ==
    CHOOSE i \in Occurrences(ret, "#### " \o C13_Headings[n] \o "\n") : TRUE

\* the start of the entry of an indicator of the catalog, and the value
\* format_value gives the row's cell with the catalog's unit, precision and
\* currency flag
EntryStart(k) == "\n* **" \o ALL_INDICATOR_DETAILS[k].display \o ":** "
EntryValue(row, k) ==
    format_value(NarrativeValue(row, k), ALL_INDICATOR_DETAILS[k].unit,
                 Get(ALL_INDICATOR_DETAILS[k], "precision", 3),
                 Get(ALL_INDICATOR_DETAILS[k], "currency", FALSE))

-----------------------------------------------------------------------------
(* The page: data of one session (Spec) *)

\* bool(x) of a text, of None and of a NaN cell (NaN is truthy)
Truthy(x) == x \notin {None, ""}

\* pandas ==, which no NaN cell satisfies
CellEq(cell, x) == cell # NA /\ x # NA /\ cell = x

\* final_with_socio_cleaned.csv of the session
AppRaw ==
    MkTable(<<
        [ISO3 |-> "IND", COUNTRY |-> "India", YEAR |-> Num(2019000), VALS |-> SampleVals],
        [ISO3 |-> "IND", COUNTRY |-> "India", YEAR |-> Num(2020000), VALS |-> MissingVals],
        [ISO3 |-> "PAK", COUNTRY |-> "Pakistan ", YEAR |-> Num(2020000), VALS |-> SampleVals],
        [ISO3 |-> "FRA", COUNTRY |-> "France", YEAR |-> Num(2019000), VALS |-> SampleVals],
        [ISO3 |-> "  ", COUNTRY |-> "Kosovo", YEAR |-> Num(2020000), VALS |-> SampleVals],
        [ISO3 |-> NA, COUNTRY |-> "Americas", YEAR |-> Num(2020000), VALS |-> SampleVals],
        [ISO3 |-> "MNA", COUNTRY |-> "Middle East, North Africa, Afghanistan & Pakistan",
         YEAR |-> Num(2020000), VALS |-> SampleVals],
        [ISO3 |-> "WLD", COUNTRY |-> "World", YEAR |-> Num(2020000), VALS |-> SampleVals]
    >>)

\* mismatch_map (line 184) read from country_name_mismatch_map.csv
MismatchMap == ("Pakistan" :> "MNA") @@ ("Russia" :> "EAS")

\* no feature was clicked yet
NoFeature == [none |-> TRUE]

\* the GeoJSON features the user can click
Features ==
    { [id |-> "ind", properties |-> ("name" :> "India")],
      [id |-> "PAK", properties |-> ("name" :> "Pakistan")],
      [id |-> "RUS", properties |-> ("name" :> "Russia")],
      [id |-> "FRA", properties |-> ("name" :> "France")],
      [id |-> "ATA", properties |-> ("name" :> "Antarctica")],
      [id |-> "IND", properties |-> ("admin" :> "India")] }

\* the places the user can click, each with what reverse_geocode.search does
\* for it: it raises, or its first result names a country
Geocoder ==
    ("at_india" :> [raises |-> FALSE, country |-> "India"]) @@
    ("at_pakistan" :> [raises |-> FALSE, country |-> "Pakistan"]) @@
    ("at_sea" :> [raises |-> FALSE, country |-> "Antarctica"]) @@
    ("off_map" :> [raises |-> TRUE, country |-> None])

Points == DOMAIN Geocoder

\* no report built (FULL_SNAPSHOT_CONTENT = None)
NoSnapshot == [none |-> TRUE]

\* the year of a row of the filtered table
YearOf(r) == TruncToInt(r.YEAR.m)

\* line 391
YearsOf(t) == { YearOf(t[i]) : i \in 1..Len(t) }

MaxOf(S) == CHOOSE x \in S : \A y \in S : y <= x
MinOf(S) == CHOOSE x \in S : \A y \in S : x <= y

\* lines 411-414: the years the slider offers
SliderYears(t) ==
    IF Len(t) = 0 THEN {} ELSE MinOf(YearsOf(t))..MaxOf(YearsOf(t))

\* line 393
country_list(t) == { t[i].COUNTRY : i \in 1..Len(t) }

\* lines 394-395: a later row of the same label overrides an earlier one
country_name_to_iso(t) ==
    LET named == { i \in 1..Len(t) : t[i].ISO3 # NA /\ Len(t[i].ISO3) > 0 }
    IN  ("Americas (USA Data Proxy)" :> "Americas (USA Data Proxy)") @@
        [c \in { t[i].COUNTRY : i \in named } |->
            t[MaxOf({ i \in named : t[i].COUNTRY = c })].ISO3]

\* lines 88 and 427 with None for a label the map does not hold
KeyOfLabelNoFallback(t, name) == Get(country_name_to_iso(t), name, None)

\* lines 88 and 427: the key of a dropdown label
KeyOfLabel(t, name) == Get(country_name_to_iso(t), name, name)

\* lines 431-432 and 506-507: the rows of a key for a year
RowsOfKey(t, key, year) ==
    SelectSeq(t, LAMBDA r : (CellEq(r.ISO3, key) \/ CellEq(r.COUNTRY, key))
                            /\ YearOf(r) = year)

\* create_data_narrative(row, year): the report of a row, told by the row and
\* the year it is built from
NarrativeOf(row, year) == [idx |-> row.idx, country |-> row.COUNTRY, year |-> year]

\* lines 431-434 and 506-509: the report of the key, if it has a row that year
SnapshotOf(t, key, year, before) ==
    LET rows == RowsOfKey(t, key, year)
    IN  IF Len(rows) > 0 THEN NarrativeOf(rows[1], year) ELSE before

\* lines 481-487 with the two branches in the other order
ResolveFeatureIdFirst(feature, t) ==
    LET iso_from_feature == Upper(Strip(feature.id))
        country_name_from_map == Get(feature.properties, "name", None)
    IN  IF \E i \in 1..Len(t) : CellEq(t[i].ISO3, iso_from_feature)
        THEN iso_from_feature
        ELSE IF Truthy(country_name_from_map)
                /\ country_name_from_map \in DOMAIN MismatchMap
        THEN MismatchMap[country_name_from_map]
        ELSE None

\* lines 481-487: the key of a clicked feature that has an id
ResolveFeature(feature, t) ==
    LET iso_from_feature == Upper(Strip(feature.id))
        country_name_from_map == Get(feature.properties, "name", None)
    IN  IF Truthy(country_name_from_map)
           /\ country_name_from_map \in DOMAIN MismatchMap
        THEN MismatchMap[country_name_from_map]
        ELSE IF \E i \in 1..Len(t) : CellEq(t[i].ISO3, iso_from_feature)
        THEN iso_from_feature
        ELSE None

\* lines 494-502: the key of a clicked place
ResolveCoord(point, t) ==
    LET results == Geocoder[point]
        country_name_from_click == results.country
        clicked_row == SelectSeq(t, LAMBDA r :
                           StrContainsNoCase(r.COUNTRY, country_name_from_click))
    IN  IF results.raises THEN None
        ELSE IF country_name_from_click \in DOMAIN MismatchMap
        THEN MismatchMap[country_name_from_click]
        ELSE IF Len(clicked_row) > 0
        THEN IF Truthy(clicked_row[1].ISO3)
             THEN clicked_row[1].ISO3
             ELSE clicked_row[1].COUNTRY
        ELSE None

\* draw_country_details, lines 285-305: what the panel shows
draw_country_details(t, selected_id, year) ==
    LET is_name_id == selected_id # NA /\ Contains(selected_id, "Proxy")
        country_df == SelectSeq(t, LAMBDA r :
                          IF is_name_id THEN CellEq(r.COUNTRY, selected_id)
                          ELSE CellEq(r.ISO3, selected_id))
        latest_row_check == SelectSeq(country_df, LAMBDA r : YearOf(r) = year)
    IN  IF Len(country_df) = 0 THEN [panel |-> "no detailed data"]
        ELSE IF Len(latest_row_check) = 0 THEN [panel |-> "no KPI data"]
        ELSE [panel |-> "KPI", idx |-> latest_row_check[1].idx]

-----------------------------------------------------------------------------
(* Spec: the user's events and the script run each of them starts *)

\* the data file with a row whose year cell is empty: line 161 raises on it
BadYearRaw ==
    MkTable(<<
        [ISO3 |-> "IND", COUNTRY |-> "India", YEAR |-> Num(2019000), VALS |-> SampleVals],
        [ISO3 |-> "FRA", COUNTRY |-> "France", YEAR |-> NaNVal, VALS |-> SampleVals]
    >>)

\* what the CSV files of lines 145-148 can be: all readable, one of them not
\* there, one of them with a line pandas cannot tokenize, one of them empty
FileStates == { "ok", "missing", "malformed", "empty" }

\* nothing reported
NoNotice == "none"

\* lines 145-150: the exception the reads raise
ReadCsvRaises(f) ==
    IF f = "missing" THEN "FileNotFoundError"
    ELSE IF f = "malformed" THEN "ParserError"
    ELSE IF f = "empty" THEN "EmptyDataError"
    ELSE "none"

\* lines 152-157 with the handlers only warning, as lines 189-191 do
ExceptClausesWarnOnly(exc) ==
    IF exc \in {"none", "FileNotFoundError", "ParserError"}
    THEN [does |-> "go on", notice |-> NoNotice]
    ELSE [does |-> "raise", notice |-> NoNotice]

\* lines 152-157: the except clauses of load_data; st.stop() ends the run
\* with an exception that "except Exception" (line 674) does not catch
ExceptClauses(exc) ==
    IF exc = "FileNotFoundError"
    THEN [does |-> "stop", notice |-> "FATAL ERROR: Missing required file"]
    ELSE IF exc = "ParserError"
    THEN [does |-> "stop", notice |-> "FATAL ERROR: CSV parsing issue"]
    ELSE IF exc = "none"
    THEN [does |-> "go on", notice |-> NoNotice]
    ELSE [does |-> "raise", notice |-> NoNotice]

\* lines 674-680: the notice of the top-level handler
FailureNotice == "Application Failed to Load"

\* load_data (lines 144-193): how it ends and the table it returns
load_data(f, t) ==
    LET handled == ExceptClauses(ReadCsvRaises(f))
    IN  IF handled.does = "stop"
        THEN [ends |-> "stop", notice |-> handled.notice, df |-> <<>>]
        ELSE IF handled.does = "raise" \/ ~YearsCastable(t)
        THEN [ends |-> "raise", notice |-> FailureNotice, df |-> <<>>]
        ELSE [ends |-> "return", notice |-> NoNotice,
              df |-> FilterAndRename(CleanTable(t))]

\* lines 479-502: the key the script resolves from what the map reports
ClickKey(m, t) ==
    LET feature == m.last_active_feature
        from_feature == IF feature # NoFeature /\ "id" \in DOMAIN feature
                        THEN ResolveFeature(feature, t)
                        ELSE None
    IN  IF from_feature = None /\ Truthy(m.last_clicked)
        THEN ResolveCoord(m.last_clicked, t)
        ELSE from_feature

\* line 504 with the test left out
SelectedAfterClickAlways(clicked_id, selected_id) == clicked_id

\* lines 504-505: the selected key after the click capture
SelectedAfterClick(clicked_id, selected_id) ==
    IF Truthy(clicked_id) THEN clicked_id ELSE selected_id

\* the locals and the output of a run that has just started (lines 387, 479)
EmptyRun ==
    [FULL_SNAPSHOT_CONTENT |-> NoSnapshot, year |-> 0, clicked_id |-> None,
     searched |-> FALSE, notice |-> NoNotice,
     details |-> [panel |-> "none"], expander |-> NoSnapshot]

\* no event yet: the page is opened
NoEvent == [kind |-> "open", sel |-> "none", key |-> None, before |-> None]

\* a new session: no key selected, the dropdown on its None option, the year
\* slider not yet created (year 0), nothing clicked on the map
Init ==
    /\ pc = "start"
    /\ session = [selected_id |-> None, country_select_box |-> None, year |-> 0]
    /\ map_data = [last_active_feature |-> NoFeature, last_clicked |-> None]
    /\ run = EmptyRun
    /\ event = NoEvent
    /\ stage = "read"
    /\ \/ files = "ok" /\ raw \in {AppRaw, BadYearRaw}
       \/ files \in FileStates \ {"ok"} /\ raw = AppRaw
    /\ df = <<>>
    /\ df2 = <<>>
    /\ call = [op |-> "none"]
    /\ ret = ""

\* lines 387-400: load_data runs until it once returned (st.cache_data), later
\* runs reuse its table; a run it stops or fails ends here, the failed one
\* with the notice of lines 674-680
Start ==
    /\ pc = "start"
    /\ IF stage = "loaded"
       THEN /\ run' = EmptyRun
            /\ pc' = "widgets"
            /\ UNCHANGED <<df, stage>>
       ELSE LET out == load_data(files, raw)
            IN  /\ run' = [EmptyRun EXCEPT !.notice = out.notice]
                /\ df' = out.df
                /\ stage' = IF out.ends = "return" THEN "loaded" ELSE stage
                /\ pc' = IF out.ends = "return" THEN "widgets"
                         ELSE IF out.ends = "stop" THEN "halted"
                         ELSE "failed"
    /\ UNCHANGED <<raw, df2, formatVars, session, map_data, files, event>>

\* lines 406-428: the year slider (first shown on the latest year) and the
\* country dropdown
Widgets ==
    /\ pc = "widgets"
    /\ LET year == IF session.year = 0 THEN MaxOf(YearsOf(df)) ELSE session.year
           selected_country_name_fallback == session.country_select_box
       IN  /\ session' =
                [session EXCEPT
                    !.year = year,
                    !.selected_id =
                        IF Truthy(selected_country_name_fallback)
                        THEN KeyOfLabel(df, selected_country_name_fallback)
                        ELSE @]
           /\ run' = [run EXCEPT !.year = year]
    /\ pc' = "snapshot"
    /\ UNCHANGED <<filterVars, formatVars, map_data, files, event>>

\* lines 430-434
Snapshot ==
    /\ pc = "snapshot"
    /\ run' = [run EXCEPT !.FULL_SNAPSHOT_CONTENT =
                  IF Truthy(session.selected_id)
                  THEN SnapshotOf(df, session.selected_id, run.year, @)
                  ELSE @]
    /\ pc' = "feature"
    /\ UNCHANGED <<filterVars, formatVars, session, map_data, files, event>>

\* lines 479-487: the map-feature path
FeaturePath ==
    /\ pc = "feature"
    /\ LET feature == map_data.last_active_feature
       IN  run' = [run EXCEPT !.clicked_id =
                      IF feature # NoFeature /\ "id" \in DOMAIN feature
                      THEN ResolveFeature(feature, df)
                      ELSE None]
    /\ pc' = "coord"
    /\ UNCHANGED <<filterVars, formatVars, session, map_data, files, event>>

\* lines 489-502: the coordinate path; searched tells that line 494 was run
CoordPath ==
    /\ pc = "coord"
    /\ LET attempted == run.clicked_id = None /\ Truthy(map_data.last_clicked)
       IN  run' = [run EXCEPT
                      !.searched = attempted,
                      !.clicked_id =
                          IF attempted
                          THEN ResolveCoord(map_data.last_clicked, df)
                          ELSE @]
    /\ pc' = "commit"
    /\ UNCHANGED <<filterVars, formatVars, session, map_data, files, event>>

\* lines 504-509
Commit ==
    /\ pc = "commit"
    /\ session' = [session EXCEPT
                      !.selected_id = SelectedAfterClick(run.clicked_id, @)]
    /\ run' = [run EXCEPT !.FULL_SNAPSHOT_CONTENT =
                  IF Truthy(run.clicked_id)
                  THEN SnapshotOf(df, run.clicked_id, run.year, @)
                  ELSE @]
    /\ pc' = "details"
    /\ UNCHANGED <<filterVars, formatVars, map_data, files, event>>

\* lines 515-518
Details ==
    /\ pc = "details"
    /\ run' = [run EXCEPT !.details =
                  IF Truthy(session.selected_id)
                  THEN draw_country_details(df, session.selected_id, run.year)
                  ELSE [panel |-> "prompt"]]
    /\ pc' = "expander"
    /\ UNCHANGED <<filterVars, formatVars, session, map_data, files, event>>

\* lines 667-672; the run ends and the page waits for the next event
Expander ==
    /\ pc = "expander"
    /\ run' = [run EXCEPT !.expander = run.FULL_SNAPSHOT_CONTENT]
    /\ pc' = "idle"
    /\ UNCHANGED <<filterVars, formatVars, session, map_data, files, event>>

\* the user picks another option of the dropdown: select_box_callback
\* (lines 84-91) runs, then the script
ChangeDropdown(name) ==
    /\ pc = "idle"
    /\ name # session.country_select_box
    /\ LET current_iso == IF Truthy(name) THEN KeyOfLabel(df, name) ELSE None
       IN  /\ session' = [session EXCEPT !.country_select_box = name,
                                         !.selected_id = current_iso]
           /\ event' = [kind |-> "dropdown", sel |-> "dropdown",
                        key |-> current_iso, before |-> session.selected_id]
    /\ pc' = "start"
    /\ UNCHANGED <<filterVars, formatVars, map_data, run, files>>

\* the user moves the year slider (lines 409-415)
MoveSlider(y) ==
    /\ pc = "idle"
    /\ y # session.year
    /\ session' = [session EXCEPT !.year = y]
    /\ event' = [event EXCEPT !.kind = "slider", !.before = session.selected_id]
    /\ pc' = "start"
    /\ UNCHANGED <<filterVars, formatVars, map_data, run, files>>

\* the user clicks a country of the map (lines 469-476): the component
\* reports the feature and the place from now on
ClickFeature(feature, point) ==
    /\ pc = "idle"
    /\ map_data' = [last_active_feature |-> feature, last_clicked |-> point]
    /\ map_data' # map_data
    /\ event' = [kind |-> "click", sel |-> "click",
                 key |-> ClickKey(map_data', df), before |-> session.selected_id]
    /\ pc' = "start"
    /\ UNCHANGED <<filterVars, formatVars, session, run, files>>

\* the user clicks the map outside every country: only the place changes
ClickElsewhere(point) ==
    /\ pc = "idle"
    /\ point # map_data.last_clicked
    /\ map_data' = [map_data EXCEPT !.last_clicked = point]
    /\ event' = [kind |-> "click", sel |-> "click",
                 key |-> ClickKey(map_data', df), before |-> session.selected_id]
    /\ pc' = "start"
    /\ UNCHANGED <<filterVars, formatVars, session, run, files>>

\* somebody puts readable files with castable years in place
RepairFiles ==
    /\ pc \in {"halted", "failed"}
    /\ files # "ok" \/ raw # AppRaw
    /\ files' = "ok"
    /\ raw' = AppRaw
    /\ UNCHANGED <<stage, df, df2, formatVars, pc, session, map_data, run, event>>

\* the user reruns the page that shows a notice only
Rerun ==
    /\ pc \in {"halted", "failed"}
    /\ event' = [event EXCEPT !.kind = "rerun", !.before = session.selected_id]
    /\ pc' = "start"
    /\ UNCHANGED <<filterVars, formatVars, session, map_data, run, files>>

Next ==
    \/ Start
    \/ Widgets
    \/ Snapshot
    \/ FeaturePath
    \/ CoordPath
    \/ Commit
    \/ Details
    \/ Expander
    \/ \E name \in {None} \cup country_list(df) : ChangeDropdown(name)
    \/ \E y \in SliderYears(df) : MoveSlider(y)
    \/ \E feature \in Features, point \in Points : ClickFeature(feature, point)
    \/ \E point \in Points : ClickElsewhere(point)
    \/ RepairFiles
    \/ Rerun

Spec == Init /\ [][Next]_vars

-----------------------------------------------------------------------------
(* Properties of the identity resolver (Spec) *)

\* the feature the map reports, its display name and its id as the script
\* reads it
ActiveFeature == map_data.last_active_feature
FeatureName == IF "name" \in DOMAIN ActiveFeature.properties
               THEN ActiveFeature.properties["name"] ELSE None
FeatureIso == Upper(Strip(ActiveFeature.id))
KnownIsos == { df[i].ISO3 : i \in 1..Len(df) } \ {NA}

\* C4: once the map-feature path has run on a clicked feature, the key it
\* resolved is the mismatch table's value whenever the feature's name is a key
\* of that table, also when the feature id is an ISO3 of the table; it is the
\* feature id only when the name is no key and the id is a known ISO3, and
\* none otherwise.  A key resolved from the mismatch table is the key selected
\* when the run ends.
C4_MismatchTableBeforeFeatureId ==
    ActiveFeature # NoFeature =>
        /\ pc \in {"coord", "commit", "details", "expander"} =>
              ( FeatureName \in DOMAIN MismatchMap
                => run.clicked_id = MismatchMap[FeatureName] )
        /\ pc = "coord" =>
              ( FeatureName \notin DOMAIN MismatchMap
                => run.clicked_id =
                      IF FeatureIso \in KnownIsos THEN FeatureIso ELSE None )
        /\ pc \in {"details", "expander", "idle"} =>
              ( FeatureName \in DOMAIN MismatchMap
                => session.selected_id = MismatchMap[FeatureName] )

\* the feature Pakistan, whose id PAK is an ISO3 of the table, resolved to the
\* mismatch table's MNA
C4_Witness ==
    /\ pc = "coord"
    /\ ActiveFeature # NoFeature
    /\ FeatureName = "Pakistan"
    /\ FeatureIso = "PAK"
    /\ "PAK" \in KnownIsos
    /\ run.clicked_id = "MNA"

-----------------------------------------------------------------------------
(* Properties of the coordinate path (Spec) *)

\* the place the map reports
Place == map_data.last_clicked

\* the map-feature path has no key for what the map reports
FeatureGaveNoKey ==
    \/ ActiveFeature = NoFeature
    \/ FeatureName \notin DOMAIN MismatchMap /\ FeatureIso \notin KnownIsos

\* the geocoder raises at the place, or names a country that is no key of the
\* mismatch table and occurs (letter case aside) in no label of the table
CoordinateMiss ==
    /\ Truthy(Place)
    /\ \/ Geocoder[Place].raises
       \/ /\ Geocoder[Place].country \notin DOMAIN MismatchMap
          /\ \A i \in 1..Len(df) :
                 \/ df[i].COUNTRY = NA
                 \/ ~Contains(Upper(df[i].COUNTRY), Upper(Geocoder[Place].country))

-----------------------------------------------------------------------------
(* Properties of the data-load step (Spec) *)

\* the run drew nothing after load_data: no widget, no click capture, no
\* details panel, no snapshot
NothingRendered ==
    /\ run.year = 0
    /\ run.clicked_id = None
    /\ ~run.searched
    /\ run.FULL_SNAPSHOT_CONTENT = NoSnapshot
    /\ run.details = [panel |-> "none"]
    /\ run.expander = NoSnapshot

\* C12: while a CSV file is missing or cannot be parsed, a run ends inside
\* load_data or right after it: it shows an error message (the FATAL ERROR
\* of load_data for a missing file and for a parser error, the failure notice
\* with the exception for an empty file), it draws nothing else, it leaves
\* the selection as it was, and no step of the script follows.
C12_LoadFailureIsFatal ==
    /\ [](files # "ok" =>
             /\ pc \in {"start", "halted", "failed"}
             /\ stage # "loaded"
             /\ pc # "start" =>
                   /\ NothingRendered
                   /\ files = "missing" =>
                         pc = "halted"
                         /\ run.notice = "FATAL ERROR: Missing required file"
                   /\ files = "malformed" =>
                         pc = "halted"
                         /\ run.notice = "FATAL ERROR: CSV parsing issue"
                   /\ files = "empty" =>
                         pc = "failed" /\ run.notice = FailureNotice)
    /\ [][(files # "ok" /\ pc = "start") =>
             (pc' \in {"halted", "failed"} /\ session' = session)]_vars

\* the run of a page whose data file does not parse was stopped
C12_Witness ==
    /\ pc = "halted"
    /\ files = "malformed"
    /\ run.notice = "FATAL ERROR: CSV parsing issue"
    /\ NothingRendered

-----------------------------------------------------------------------------
(* Properties of the manual path (Spec) *)

\* the rows of the table that give the label L an ISO3
RowsNaming(L) ==
    { i \in 1..Len(df) : df[i].COUNTRY = L /\ df[i].ISO3 \notin {NA, ""} }

\* the key of the label L: what the name-to-ISO map holds for it (the ISO3 of
\* the last row that gives it one; the label itself for the Americas label),
\* and L if the map does not hold it
ManualKey(L) ==
    IF L = "Americas (USA Data Proxy)" THEN L
    ELSE IF RowsNaming(L) # {} THEN df[MaxOf(RowsNaming(L))].ISO3
    ELSE L

\* C14: when the dropdown holds a label, the script has written the label's
\* key to the selection state once the dropdown is drawn; the callback of a
\* dropdown change writes the key of the new label, and None when the
\* dropdown is set back to its empty option.
C14_ManualKeyOfDropdownLabel ==
    /\ []((pc = "snapshot" /\ Truthy(session.country_select_box)) =>
             session.selected_id = ManualKey(session.country_select_box))
    /\ [][session'.country_select_box # session.country_select_box =>
             session'.selected_id =
                 IF Truthy(session'.country_select_box)
                 THEN ManualKey(session'.country_select_box)
                 ELSE None]_vars

\* Kosovo, whose row has no ISO3, was picked: the key is the label itself
C14_Witness ==
    /\ pc = "snapshot"
    /\ event.kind = "dropdown"
    /\ session.country_select_box = "Kosovo"
    /\ RowsNaming("Kosovo") = {}
    /\ session.selected_id = "Kosovo"

-----------------------------------------------------------------------------
(* Properties of the selection over a session (Spec) *)

\* a run has ended and the page waits for the next event
RenderEnded == pc = "idle"

\* the dropdown was changed last (year changes aside) and its key is selected
DropdownChangeWins ==
    (RenderEnded /\ event.sel = "dropdown") => session.selected_id = event.key

\* the map was clicked last (year changes aside), the click has a key, and
\* that key is selected
MapClickWins ==
    (RenderEnded /\ event.sel = "click" /\ event.key # None) =>
        session.selected_id = event.key

\* the run a year change started left the selected key as it was
SliderKeepsKey ==
    (RenderEnded /\ event.kind = "slider") => session.selected_id = event.before

\* C15: when a run has ended, the selected key is the key of the most recent
\* dropdown change or map click, whichever came last (the key of the new
\* dropdown label, None for the empty option; the key the click resolves
\* to), and the run a year-slider change started has not changed the
\* selected key.
C15_MostRecentSelectionEventWins ==
    DropdownChangeWins /\ MapClickWins /\ SliderKeepsKey

-----------------------------------------------------------------------------
(* Properties of the snapshot and the details panel (Spec) *)

\* the row of the table with the index label n is a row of the selected key
\* for the selected year
RowOfSelection(n) ==
    \E i \in 1..Len(df) :
        /\ df[i].idx = n
        /\ YearOf(df[i]) = session.year
        /\ CellEq(df[i].ISO3, session.selected_id)
           \/ CellEq(df[i].COUNTRY, session.selected_id)

\* C16: when a run has ended with the snapshot expander shown, the details
\* panel of that run shows KPI values, and the snapshot and the KPI values
\* are built from one row, a row of the selected key for the selected year.
C16_SnapshotAgreesWithDetails ==
    (RenderEnded /\ run.expander # NoSnapshot) =>
        /\ run.details.panel = "KPI"
        /\ run.expander.idx = run.details.idx
        /\ run.expander.year = session.year
        /\ RowOfSelection(run.expander.idx)


=============================================================================
